---- MODULE Spec2Model ----
(***************************************************************************)
(* Netwalk (src/index.tsx): grid generation, connectivity evaluation, win  *)
(* verification, hints, and the React state / effect cycle of the App      *)
(* component, as a state machine.                                          *)
(*                                                                         *)
(* Two-dimensional arrays are sequences of sequences: the array element    *)
(* a[r][c] (0-based) is a[r+1][c+1] here.  Coordinates {r, c} are pairs    *)
(* <<r, c>>.  Bit masks are the integers 0..15.                            *)
(***************************************************************************)
EXTENDS Integers, Sequences, FiniteSets, TLC

\* ---- bounds of the model -------------------------------------------------
\* Side length of the grids of the game specification (the program offers
\* 5, 7, 9 and 11; the model plays on a smaller board).
MaxSize == 2
\* Largest side length of the generation-only specification.
GenMaxSize == 3
\* Side length of the grids of the evaluator specification.
EvalSize == 2
\* Rotate and hint requests accepted per game (bounds the score counter).
MaxMoves == 2

VARIABLES gridSize, isWrapping, grid, solution, serverCoords, terminals,
          isWon, score, moves, pendingEffects, pc, genCaller,
          connections, visited, stack, extraLeft

vars == <<gridSize, isWrapping, grid, solution, serverCoords, terminals,
          isWon, score, moves, pendingEffects, pc, genCaller,
          connections, visited, stack, extraLeft>>

appVars == <<gridSize, isWrapping, grid, solution, serverCoords, terminals,
             isWon, score, moves>>

genVars == <<connections, visited, stack, extraLeft>>

\* ---- types and constants -------------------------------------------------
TileType == {"TERMINAL", "STRAIGHT", "CORNER", "T_JUNCTION", "CROSS"}

\* Object key order N, E, S, W: the order of every `for (const key in DIRECTIONS)`.
DIRECTIONS ==
    << [key |-> "N", r |-> -1, c |-> 0,  from |-> "S", mask |-> 1],
       [key |-> "E", r |-> 0,  c |-> 1,  from |-> "W", mask |-> 2],
       [key |-> "S", r |-> 1,  c |-> 0,  from |-> "N", mask |-> 4],
       [key |-> "W", r |-> 0,  c |-> -1, from |-> "E", mask |-> 8] >>

\* DIRECTIONS[key].mask
MaskOf(key) == DIRECTIONS[CHOOSE i \in 1..4 : DIRECTIONS[i].key = key].mask

\* DIRECTIONS[dir.from].mask
FromMask(dir) == MaskOf(dir.from)

\* Indexed by rotation + 1.
TILE_CONNECTIONS ==
    [t \in TileType |->
        CASE t = "TERMINAL"   -> <<1, 2, 4, 8>>
          [] t = "STRAIGHT"   -> <<5, 10, 5, 10>>
          [] t = "CORNER"     -> <<3, 6, 12, 9>>
          [] t = "T_JUNCTION" -> <<7, 14, 13, 11>>
          [] t = "CROSS"      -> <<15, 15, 15, 15>>]

\* (m & b) !== 0, for a single-bit b
HasBit(m, b) == (m \div b) % 2 = 1

\* m | b, for a single-bit b
OrBit(m, b) == IF HasBit(m, b) THEN m ELSE m + b

\* TILE_CONNECTIONS[tile.type][tile.rotation]
TileMask(tile) == TILE_CONNECTIONS[tile.type][tile.rotation + 1]

\* ---- grid helpers --------------------------------------------------------
Cells(size) == (0..(size - 1)) \X (0..(size - 1))

\* The i-th cell in row-major order (the order of the nested r, c loops and
\* of map), i from 1.
CellAt(size, i) == <<(i - 1) \div size, (i - 1) % size>>

InRange(size, r, c) == r >= 0 /\ r < size /\ c >= 0 /\ c < size

\* Variant of Neighbor that wraps the column only.
NeighborWrapsColumnOnly(size, wrap, r, c, dir) ==
    LET nr == r + dir.r
        nc0 == c + dir.c
        nc  == IF wrap THEN (nc0 + size) % size ELSE nc0
    IN  [r |-> nr, c |-> nc, ok |-> wrap \/ InRange(size, nr, nc)]

\* The neighbour arithmetic repeated at every use: the offset is added, in
\* wrapping mode both coordinates are taken modulo size, and the neighbour
\* counts when the mode wraps or the coordinates are in range.
Neighbor(size, wrap, r, c, dir) ==
    LET nr0 == r + dir.r
        nc0 == c + dir.c
        nr  == IF wrap THEN (nr0 + size) % size ELSE nr0
        nc  == IF wrap THEN (nc0 + size) % size ELSE nc0
    IN  [r |-> nr, c |-> nc, ok |-> wrap \/ InRange(size, nr, nc)]

At(a, r, c) == a[r + 1][c + 1]

\* grid.flat().filter(t => t.connected).length
ConnectedCount(g) ==
    Cardinality({rc \in Cells(Len(g)) : At(g, rc[1], rc[2]).connected})

\* ---- checkConnectivity ---------------------------------------------------
\* Variant of ExpandDirs that enqueues a neighbour as soon as the tile points
\* at it, without asking the neighbour to point back.
RECURSIVE ExpandDirsOneSided(_, _, _, _, _, _)
ExpandDirsOneSided(g, wrap, r, c, i, st) ==
    IF i > 4 THEN st
    ELSE
      LET dir == DIRECTIONS[i]
          n == Neighbor(Len(g), wrap, r, c, dir)
          st2 ==
            IF HasBit(TileMask(At(g, r, c)), dir.mask)
               /\ n.ok
               /\ <<n.r, n.c>> \notin st.visited
            THEN [queue   |-> Append(st.queue, <<n.r, n.c>>),
                  visited |-> st.visited \cup {<<n.r, n.c>>}]
            ELSE st
      IN ExpandDirsOneSided(g, wrap, r, c, i + 1, st2)

\* Variant of ExpandDirs whose loop stops one direction short (the W bit of
\* the cell is never followed).
RECURSIVE ExpandDirsSkipsLast(_, _, _, _, _, _)
ExpandDirsSkipsLast(g, wrap, r, c, i, st) ==
    IF i > 3 THEN st
    ELSE
      LET dir == DIRECTIONS[i]
          n == Neighbor(Len(g), wrap, r, c, dir)
          st2 ==
            IF HasBit(TileMask(At(g, r, c)), dir.mask)
               /\ n.ok
               /\ <<n.r, n.c>> \notin st.visited
               /\ HasBit(TileMask(At(g, n.r, n.c)), FromMask(dir))
            THEN [queue   |-> Append(st.queue, <<n.r, n.c>>),
                  visited |-> st.visited \cup {<<n.r, n.c>>}]
            ELSE st
      IN ExpandDirsSkipsLast(g, wrap, r, c, i + 1, st2)

\* One pass of the inner `for (const key in DIRECTIONS)` loop for the cell
\* (r, c) taken from the queue, from direction index i on.  st = [queue, visited].
RECURSIVE ExpandDirs(_, _, _, _, _, _)
ExpandDirs(g, wrap, r, c, i, st) ==
    IF i > 4 THEN st
    ELSE
      LET dir == DIRECTIONS[i]
          size == Len(g)
          conns == TileMask(At(g, r, c))
          n == Neighbor(size, wrap, r, c, dir)
          st2 ==
            IF HasBit(conns, dir.mask)
               /\ n.ok
               /\ <<n.r, n.c>> \notin st.visited
               /\ HasBit(TileMask(At(g, n.r, n.c)), FromMask(dir))
            THEN [queue   |-> Append(st.queue, <<n.r, n.c>>),
                  visited |-> st.visited \cup {<<n.r, n.c>>}]
            ELSE st
      IN ExpandDirs(g, wrap, r, c, i + 1, st2)

\* The `while (queue.length > 0)` loop; yields connectedSet.
RECURSIVE BfsLoop(_, _, _, _, _)
BfsLoop(g, wrap, queue, visitedSet, connectedSet) ==
    IF queue = <<>> THEN connectedSet
    ELSE
      LET cur == Head(queue)
          st  == ExpandDirs(g, wrap, cur[1], cur[2], 1,
                            [queue |-> Tail(queue), visited |-> visitedSet])
      IN BfsLoop(g, wrap, st.queue, st.visited, connectedSet \cup {cur})

ConnectedSet(g, server, wrap) ==
    BfsLoop(g, wrap, <<server>>, {server}, {})

\* Variant of checkConnectivity that patches the flags: a cell flagged in the
\* input stays flagged.
checkConnectivitySticky(g, server, wrap) ==
    LET cs == ConnectedSet(g, server, wrap)
    IN [r1 \in 1..Len(g) |->
          [c1 \in 1..Len(g) |->
             [g[r1][c1] EXCEPT !.connected = (@ \/ <<r1 - 1, c1 - 1>> \in cs)]]]

checkConnectivity(g, server, wrap) ==
    LET cs == ConnectedSet(g, server, wrap)
    IN [r1 \in 1..Len(g) |->
          [c1 \in 1..Len(g) |->
             [g[r1][c1] EXCEPT !.connected = (<<r1 - 1, c1 - 1>> \in cs)]]]

\* ---- generateGrid --------------------------------------------------------
\* Array(size).fill(v).map(() => Array(size).fill(v))
Filled(size, v) == [r1 \in 1..size |-> [c1 \in 1..size |-> v]]

\* a[r][c] |= b
SetBit(a, r, c, b) == [a EXCEPT ![r + 1][c + 1] = OrBit(@, b)]

\* Variant of UnvisitedNeighbors that forgets the !visited test.
RECURSIVE UnvisitedNeighborsAnyCell(_, _, _, _, _, _)
UnvisitedNeighborsAnyCell(size, wrap, vis, r, c, i) ==
    IF i > 4 THEN <<>>
    ELSE
      LET dir == DIRECTIONS[i]
          n == Neighbor(size, wrap, r, c, dir)
          rest == UnvisitedNeighborsAnyCell(size, wrap, vis, r, c, i + 1)
      IN IF n.ok
         THEN <<[r |-> n.r, c |-> n.c, mask |-> dir.mask, fromMask |-> FromMask(dir)]>> \o rest
         ELSE rest

\* The `neighbors` list built for the cell on top of the stack (lines 269-283).
RECURSIVE UnvisitedNeighbors(_, _, _, _, _, _)
UnvisitedNeighbors(size, wrap, vis, r, c, i) ==
    IF i > 4 THEN <<>>
    ELSE
      LET dir == DIRECTIONS[i]
          n == Neighbor(size, wrap, r, c, dir)
          rest == UnvisitedNeighbors(size, wrap, vis, r, c, i + 1)
      IN IF n.ok /\ ~At(vis, n.r, n.c)
         THEN <<[r |-> n.r, c |-> n.c, mask |-> dir.mask, fromMask |-> FromMask(dir)]>> \o rest
         ELSE rest

\* Math.floor(size * size * 0.4)
ExtraConnections(size) == (size * size * 4) \div 10

\* conn.toString(2).split('1').length - 1
NumConnections(conn) ==
    (conn % 2) + ((conn \div 2) % 2) + ((conn \div 4) % 2) + ((conn \div 8) % 2)

\* Variant of TypeOfMask that types every two-bit mask as a corner.
TypeOfMaskNoStraight(conn) ==
    LET n == NumConnections(conn)
    IN CASE n = 1 -> "TERMINAL"
         [] n = 2 -> "CORNER"
         [] n = 3 -> "T_JUNCTION"
         [] n = 4 -> "CROSS"
         [] OTHER -> "TERMINAL"

\* Variant of TypeOfMask whose switch is one case off: three bits give a
\* cross.
TypeOfMaskTeeAsCross(conn) ==
    LET n == NumConnections(conn)
    IN CASE n = 1 -> "TERMINAL"
         [] n = 2 -> IF conn = 5 \/ conn = 10 THEN "STRAIGHT" ELSE "CORNER"
         [] n = 3 -> "CROSS"
         [] n = 4 -> "CROSS"
         [] OTHER -> "TERMINAL"

\* Lines 335-345: the tile type of a generation-time mask.
TypeOfMask(conn) ==
    LET n == NumConnections(conn)
    IN CASE n = 1 -> "TERMINAL"
         [] n = 2 -> IF conn = 5 \/ conn = 10 THEN "STRAIGHT" ELSE "CORNER"
         [] n = 3 -> "T_JUNCTION"
         [] n = 4 -> "CROSS"
         [] OTHER -> "TERMINAL"

\* targetRotations.indexOf(conn), 0-based, -1 when absent
IndexOf(table, conn) ==
    IF \E i \in 1..Len(table) : table[i] = conn
    THEN (CHOOSE i \in 1..Len(table) :
             table[i] = conn /\ \A j \in 1..(i - 1) : table[j] # conn) - 1
    ELSE -1

\* Lines 347-349: the solved rotation of a generation-time mask.
RotationOfMask(conn) ==
    LET rotation == IndexOf(TILE_CONNECTIONS[TypeOfMask(conn)], conn)
    IN IF rotation = -1 THEN 0 ELSE rotation

\* solvedGrid (lines 331-352)
SolvedGrid(conns) ==
    [r1 \in 1..Len(conns) |->
       [c1 \in 1..Len(conns) |->
          [type |-> TypeOfMask(conns[r1][c1]),
           rotation |-> RotationOfMask(conns[r1][c1])]]]

\* solutionRotations (line 363)
SolutionRotations(conns) ==
    [r1 \in 1..Len(conns) |->
       [c1 \in 1..Len(conns) |-> SolvedGrid(conns)[r1][c1].rotation]]

\* terminals (lines 330, 335-337): pushed in row-major order, from cell i on
RECURSIVE TerminalsFrom(_, _)
TerminalsFrom(conns, i) ==
    IF i > Len(conns) * Len(conns) THEN <<>>
    ELSE LET rc == CellAt(Len(conns), i)
         IN IF NumConnections(At(conns, rc[1], rc[2])) = 1
            THEN <<rc>> \o TerminalsFrom(conns, i + 1)
            ELSE TerminalsFrom(conns, i + 1)

TerminalsOf(conns) == TerminalsFrom(conns, 1)

\* Variant of FinalGrid that scrambles the server tile as well.
FinalGridServerScrambled(conns, server, rot) ==
    [r1 \in 1..Len(conns) |->
       [c1 \in 1..Len(conns) |->
          LET isThisServer == (r1 - 1 = server[1] /\ c1 - 1 = server[2])
          IN [type      |-> TypeOfMask(conns[r1][c1]),
              isServer  |-> isThisServer,
              rotation  |-> IF isThisServer
                            THEN (RotationOfMask(conns[r1][c1]) + 1) % 4
                            ELSE rot[<<r1 - 1, c1 - 1>>],
              connected |-> FALSE]]]

\* finalGrid (lines 366-375) for a server and a choice rot of scrambled rotations
FinalGrid(conns, server, rot) ==
    [r1 \in 1..Len(conns) |->
       [c1 \in 1..Len(conns) |->
          LET isThisServer == (r1 - 1 = server[1] /\ c1 - 1 = server[2])
          IN [type      |-> SolvedGrid(conns)[r1][c1].type,
              isServer  |-> isThisServer,
              rotation  |-> IF isThisServer THEN SolvedGrid(conns)[r1][c1].rotation
                            ELSE rot[<<r1 - 1, c1 - 1>>],
              connected |-> FALSE]]]

\* Lines 259-265: the arrays are created and the start cell of the spanning
\* walk is drawn, marked and pushed.  A walk state is [connections, visited, stack].
WalkStarts(size) ==
    {[connections |-> Filled(size, 0),
      visited |-> [Filled(size, FALSE) EXCEPT ![start[1] + 1][start[2] + 1] = TRUE],
      stack |-> <<start>>] : start \in Cells(size)}

\* Variant of WalkNext that sets the bit on the cell left and forgets the
\* opposite bit on the cell entered.
WalkNextOneWay(size, wrap, st) ==
    LET top == st.stack[Len(st.stack)]
        neighbors == UnvisitedNeighbors(size, wrap, st.visited, top[1], top[2], 1)
    IN IF Len(neighbors) > 0
       THEN {LET neighbor == neighbors[k]
             IN [connections |-> SetBit(st.connections, top[1], top[2], neighbor.mask),
                 visited |-> [st.visited EXCEPT ![neighbor.r + 1][neighbor.c + 1] = TRUE],
                 stack |-> Append(st.stack, <<neighbor.r, neighbor.c>>)]
             : k \in 1..Len(neighbors)}
       ELSE {[st EXCEPT !.stack = SubSeq(st.stack, 1, Len(st.stack) - 1)]}

\* One iteration of the `while (stack.length > 0)` loop (lines 267-294): the
\* states it can leave, one per draw of Math.random.
WalkNext(size, wrap, st) ==
    LET top == st.stack[Len(st.stack)]
        neighbors == UnvisitedNeighbors(size, wrap, st.visited, top[1], top[2], 1)
    IN IF Len(neighbors) > 0
       THEN {LET neighbor == neighbors[k]
             IN [connections |->
                    SetBit(SetBit(st.connections, top[1], top[2], neighbor.mask),
                           neighbor.r, neighbor.c, neighbor.fromMask),
                 visited |-> [st.visited EXCEPT ![neighbor.r + 1][neighbor.c + 1] = TRUE],
                 stack |-> Append(st.stack, <<neighbor.r, neighbor.c>>)]
             : k \in 1..Len(neighbors)}
       ELSE {[st EXCEPT !.stack = SubSeq(st.stack, 1, Len(st.stack) - 1)]}

\* The directions whose bit is not yet set on a mask (lines 302-309), from
\* direction index i on.
RECURSIVE PotentialFrom(_, _)
PotentialFrom(conn, i) ==
    IF i > 4 THEN <<>>
    ELSE IF ~HasBit(conn, DIRECTIONS[i].mask)
         THEN <<DIRECTIONS[i]>> \o PotentialFrom(conn, i + 1)
         ELSE PotentialFrom(conn, i + 1)

PotentialDirections(conn) == PotentialFrom(conn, 1)

\* Variant of DensifyCell that sets the bit on the drawn cell only.
DensifyCellOneWay(size, wrap, conns, rc) ==
    LET potentialDirections == PotentialDirections(At(conns, rc[1], rc[2]))
    IN IF Len(potentialDirections) > 0
       THEN {LET dir == potentialDirections[k]
                 n == Neighbor(size, wrap, rc[1], rc[2], dir)
             IN IF n.ok
                THEN SetBit(conns, rc[1], rc[2], dir.mask)
                ELSE conns
             : k \in 1..Len(potentialDirections)}
       ELSE {conns}

\* Variant of DensifyCell that keeps the bit of the drawn cell when the
\* neighbour is off the grid.
DensifyCellNoClip(size, wrap, conns, rc) ==
    LET potentialDirections == PotentialDirections(At(conns, rc[1], rc[2]))
    IN IF Len(potentialDirections) > 0
       THEN {LET dir == potentialDirections[k]
                 n == Neighbor(size, wrap, rc[1], rc[2], dir)
             IN IF n.ok
                THEN SetBit(SetBit(conns, rc[1], rc[2], dir.mask), n.r, n.c, FromMask(dir))
                ELSE SetBit(conns, rc[1], rc[2], dir.mask)
             : k \in 1..Len(potentialDirections)}
       ELSE {conns}

\* One round of the densification loop (lines 298-327) for the drawn cell rc:
\* the connection arrays it can leave.
DensifyCell(size, wrap, conns, rc) ==
    LET r == rc[1]
        c == rc[2]
        potentialDirections == PotentialDirections(At(conns, r, c))
    IN IF Len(potentialDirections) > 0
       THEN {LET dir == potentialDirections[k]
                 n == Neighbor(size, wrap, r, c, dir)
             IN IF n.ok
                THEN SetBit(SetBit(conns, r, c, dir.mask), n.r, n.c, FromMask(dir))
                ELSE conns
             : k \in 1..Len(potentialDirections)}
       ELSE {conns}

DensifyNext(size, wrap, conns) ==
    UNION {DensifyCell(size, wrap, conns, rc) : rc \in Cells(size)}

\* One iteration of the walk loop, as a step of the generation-only machine.
WalkStep ==
    /\ pc = "walk"
    /\ stack # <<>>
    /\ \E st \in WalkNext(gridSize, isWrapping,
                          [connections |-> connections, visited |-> visited,
                           stack |-> stack]) :
         /\ connections' = st.connections
         /\ visited' = st.visited
         /\ stack' = st.stack
    /\ UNCHANGED <<extraLeft, pc, genCaller, pendingEffects>>
    /\ UNCHANGED appVars

\* The walk loop exits when the stack is empty; densification follows.
WalkDone ==
    /\ pc = "walk"
    /\ stack = <<>>
    /\ pc' = "densify"
    /\ UNCHANGED <<genCaller, pendingEffects>>
    /\ UNCHANGED genVars
    /\ UNCHANGED appVars

\* One round of the densification loop, as a step of the generation-only machine.
DensifyStep ==
    /\ pc = "densify"
    /\ extraLeft > 0
    /\ connections' \in DensifyNext(gridSize, isWrapping, connections)
    /\ extraLeft' = extraLeft - 1
    /\ UNCHANGED <<visited, stack, pc, genCaller, pendingEffects>>
    /\ UNCHANGED appVars

\* The scrambled rotations Math.floor(Math.random() * 4) can draw for the cells
\* other than the server (line 372).
AllRotations(size, server) == [Cells(size) \ {server} -> 0..3]

\* The draw in which every tile lands on its solved rotation.
SolvedRotations(conns, server) ==
    {[rc \in Cells(Len(conns)) \ {server} |-> At(SolutionRotations(conns), rc[1], rc[2])]}

\* ---- generation on its own -----------------------------------------------
\* generateGrid(size, isWrapping) entered, up to the seeding of the stack
\* (lines 259-265), for a size in 2..GenMaxSize and either mode.
InitGen ==
    /\ gridSize \in 2..GenMaxSize
    /\ isWrapping \in BOOLEAN
    /\ grid = <<>>
    /\ solution = <<>>
    /\ serverCoords = <<0, 0>>
    /\ terminals = <<>>
    /\ isWon = FALSE
    /\ score = 0
    /\ moves = 0
    /\ pendingEffects = {}
    /\ genCaller = "none"
    /\ pc = "walk"
    /\ \E st \in WalkStarts(gridSize) :
         /\ connections = st.connections
         /\ visited = st.visited
         /\ stack = st.stack
    /\ extraLeft = ExtraConnections(gridSize)

\* Typing, server placement and scramble for the draw that lands every tile
\* on its solved rotation, followed by the evaluation of startNewGame.
SolveAll ==
    /\ pc = "densify"
    /\ extraLeft = 0
    /\ genCaller = "none"
    /\ \E server \in Cells(gridSize) :
         \E rot \in SolvedRotations(connections, server) :
            /\ serverCoords' = server
            /\ grid' = checkConnectivity(FinalGrid(connections, server, rot),
                                         server, isWrapping)
    /\ solution' = SolutionRotations(connections)
    /\ terminals' = TerminalsOf(connections)
    /\ pc' = "solved"
    /\ UNCHANGED <<gridSize, isWrapping, isWon, score, moves, pendingEffects, genCaller>>
    /\ UNCHANGED genVars

NextGen == WalkStep \/ WalkDone \/ DensifyStep \/ SolveAll

SpecGen == InitGen /\ [][NextGen]_vars

\* ---- the win-condition effect --------------------------------------------
\* Variant of EveryTerminalConnected that is satisfied by one connected
\* terminal (some in place of every).
SomeTerminalConnected(g, terms) ==
    \E k \in 1..Len(terms) :
       InRange(Len(g), terms[k][1], terms[k][2]) /\ At(g, terms[k][1], terms[k][2]).connected

\* terminals.every(t => grid[t.r]?.[t.c]?.connected)
EveryTerminalConnected(g, terms) ==
    \A k \in 1..Len(terms) :
       InRange(Len(g), terms[k][1], terms[k][2]) /\ At(g, terms[k][1], terms[k][2]).connected

\* Condition 1 (lines 574-576)
AllRequiredTilesConnected(g, terms) ==
    IF Len(terms) > 0
    THEN EveryTerminalConnected(g, terms)
    ELSE \A rc \in Cells(Len(g)) : At(g, rc[1], rc[2]).connected

\* Variant of LeakFound without case 3: a powered neighbour is never asked to
\* point back.
LeakFoundNoReciprocity(g, wrap, r, c, dir) ==
    LET size == Len(g)
        nr0 == r + dir.r
        nc0 == c + dir.c
    IN /\ HasBit(TileMask(At(g, r, c)), dir.mask)
       /\ IF ~wrap /\ (nr0 < 0 \/ nr0 >= size \/ nc0 < 0 \/ nc0 >= size)
          THEN TRUE
          ELSE LET nr == IF wrap THEN (nr0 + size) % size ELSE nr0
                   nc == IF wrap THEN (nc0 + size) % size ELSE nc0
               IN ~At(g, nr, nc).connected

\* The body of the direction loop (lines 598-625): TRUE when the connection of
\* the powered tile (r, c) in direction dir is a leak.
LeakFound(g, wrap, r, c, dir) ==
    LET size == Len(g)
        conns == TileMask(At(g, r, c))
        nr0 == r + dir.r
        nc0 == c + dir.c
    IN /\ HasBit(conns, dir.mask)
       /\ IF ~wrap /\ (nr0 < 0 \/ nr0 >= size \/ nc0 < 0 \/ nc0 >= size)
          THEN TRUE
          ELSE LET nr == IF wrap THEN (nr0 + size) % size ELSE nr0
                   nc == IF wrap THEN (nc0 + size) % size ELSE nc0
                   neighbor == At(g, nr, nc)
               IN IF ~neighbor.connected
                  THEN TRUE
                  ELSE ~HasBit(TileMask(neighbor), FromMask(dir))

\* Condition 2 (lines 585-628): the loops over r, c and the directions return
\* false at the first leak of a powered tile, and run through otherwise.
NoLeak(g, wrap) ==
    \A r \in 0..(Len(g) - 1) : \A c \in 0..(Len(g) - 1) :
       At(g, r, c).connected =>
          \A d \in 1..4 : ~LeakFound(g, wrap, r, c, DIRECTIONS[d])

\* Variant of isWinConditionMet that compares the rotations with the stored
\* Solution instead of tracing the exposed connections.
isWinConditionMetBySolution(g, terms, wrap) ==
    \A a \in Cells(Len(g)) :
       At(g, a[1], a[2]).isServer
          \/ At(g, a[1], a[2]).rotation = At(solution, a[1], a[2])

\* isWinConditionMet (lines 569-631), over the effect's closure
isWinConditionMet(g, terms, wrap) ==
    IF ~AllRequiredTilesConnected(g, terms)
    THEN FALSE
    ELSE NoLeak(g, wrap)

\* Variant of WinEffectFires: the effect of the earlier App (lines 1330-1337),
\* which returns when there is no terminal and asks only for the terminals.
WinEffectFiresOld(won, g, terms, wrap) ==
    /\ ~(won \/ Len(g) = 0 \/ Len(terms) = 0)
    /\ EveryTerminalConnected(g, terms)

\* The effect's guard and verdict (lines 567, 634): TRUE when it calls setIsWon(true).
WinEffectFires(won, g, terms, wrap) ==
    /\ ~(won \/ Len(g) = 0)
    /\ isWinConditionMet(g, terms, wrap)

\* ---- handleHintClick helpers ---------------------------------------------
\* incorrectTiles (lines 768-775), from cell i on
RECURSIVE IncorrectFrom(_, _, _, _)
IncorrectFrom(g, sol, size, i) ==
    IF i > size * size THEN <<>>
    ELSE LET rc == CellAt(size, i)
             t == At(g, rc[1], rc[2])
         IN IF ~t.isServer /\ t.rotation # At(sol, rc[1], rc[2])
            THEN <<rc>> \o IncorrectFrom(g, sol, size, i + 1)
            ELSE IncorrectFrom(g, sol, size, i + 1)

IncorrectTiles(g, sol, size) == IncorrectFrom(g, sol, size, 1)

\* newGrid[r][c].rotation = v on a copy of the grid
WithRotation(g, r, c, v) == [g EXCEPT ![r + 1][c + 1].rotation = v]

\* Variant of BestHintLoop in which a later cell of equal gain replaces the
\* best found so far (>= for >).
RECURSIVE BestHintLoopLastTie(_, _, _, _, _, _, _)
BestHintLoopLastTie(g, sol, server, wrap, incorrect, i, best) ==
    IF i > Len(incorrect) THEN best
    ELSE
      LET coords == incorrect[i]
          tempGrid == WithRotation(g, coords[1], coords[2], At(sol, coords[1], coords[2]))
          gridAfterHint == checkConnectivity(tempGrid, server, wrap)
          newConnections == ConnectedCount(gridAfterHint) - ConnectedCount(g)
          best2 == IF newConnections >= best.maxNewConnections
                   THEN [coords |-> coords, maxNewConnections |-> newConnections]
                   ELSE best
      IN BestHintLoopLastTie(g, sol, server, wrap, incorrect, i + 1, best2)

\* The loop over incorrectTiles (lines 782-793); best = [coords, maxNewConnections],
\* coords = <<>> standing for null.
RECURSIVE BestHintLoop(_, _, _, _, _, _, _)
BestHintLoop(g, sol, server, wrap, incorrect, i, best) ==
    IF i > Len(incorrect) THEN best
    ELSE
      LET coords == incorrect[i]
          tempGrid == WithRotation(g, coords[1], coords[2], At(sol, coords[1], coords[2]))
          gridAfterHint == checkConnectivity(tempGrid, server, wrap)
          newConnections == ConnectedCount(gridAfterHint) - ConnectedCount(g)
          best2 == IF newConnections > best.maxNewConnections
                   THEN [coords |-> coords, maxNewConnections |-> newConnections]
                   ELSE best
      IN BestHintLoop(g, sol, server, wrap, incorrect, i + 1, best2)

\* isAdjacent (lines 799-812)
IsAdjacent(g, size, wrap, r, c) ==
    \E i \in 1..4 :
       LET n == Neighbor(size, wrap, r, c, DIRECTIONS[i])
       IN n.ok /\ At(g, n.r, n.c).connected

\* adjacentHint (lines 797-817), <<>> standing for null
RECURSIVE AdjacentHint(_, _, _, _, _)
AdjacentHint(g, size, wrap, incorrect, i) ==
    IF i > Len(incorrect) THEN <<>>
    ELSE IF IsAdjacent(g, size, wrap, incorrect[i][1], incorrect[i][2])
         THEN incorrect[i]
         ELSE AdjacentHint(g, size, wrap, incorrect, i + 1)

\* Variant of HintCoords that falls back only when the loop found no cell at
\* all: a best cell of gain zero is kept.
HintCoordsKeepsZeroGain(g, sol, server, wrap, size) ==
    LET incorrect == IncorrectTiles(g, sol, size)
        bestHint == BestHintLoop(g, sol, server, wrap, incorrect, 1,
                                 [coords |-> <<>>, maxNewConnections |-> -1])
    IN IF bestHint.coords = <<>>
       THEN LET adjacentHint == AdjacentHint(g, size, wrap, incorrect, 1)
            IN IF adjacentHint # <<>> THEN adjacentHint ELSE incorrect[1]
       ELSE bestHint.coords

\* Variant of HintCoords that never looks at the gains: it always takes the
\* fallback of lines 796-819.
HintCoordsFallbackOnly(g, sol, server, wrap, size) ==
    LET incorrect == IncorrectTiles(g, sol, size)
        adjacentHint == AdjacentHint(g, size, wrap, incorrect, 1)
    IN IF adjacentHint # <<>> THEN adjacentHint ELSE incorrect[1]

\* hintCoords (lines 779-821) for a non-empty incorrectTiles
HintCoords(g, sol, server, wrap, size) ==
    LET incorrect == IncorrectTiles(g, sol, size)
        bestHint == BestHintLoop(g, sol, server, wrap, incorrect, 1,
                                 [coords |-> <<>>, maxNewConnections |-> -1])
    IN IF bestHint.coords = <<>> \/ bestHint.maxNewConnections <= 0
       THEN LET adjacentHint == AdjacentHint(g, size, wrap, incorrect, 1)
            IN IF adjacentHint # <<>> THEN adjacentHint ELSE incorrect[1]
       ELSE bestHint.coords

\* Variant of ApplyHint that turns the chosen tile a quarter turn instead of
\* setting it to its Solution rotation.
ApplyHintQuarterTurn(g, sol, server, wrap, hintCoords) ==
    checkConnectivity(
       WithRotation(g, hintCoords[1], hintCoords[2],
                    (At(g, hintCoords[1], hintCoords[2]).rotation + 1) % 4),
       server, wrap)

\* Variant of ApplyHint that reads Solution with row and column swapped.
ApplyHintTransposed(g, sol, server, wrap, hintCoords) ==
    checkConnectivity(
       WithRotation(g, hintCoords[1], hintCoords[2],
                    At(sol, hintCoords[2], hintCoords[1])),
       server, wrap)

\* The hint applied (lines 823-829): the chosen tile set to its Solution
\* rotation on a copy of the grid, and the copy evaluated.
ApplyHint(g, sol, server, wrap, hintCoords) ==
    checkConnectivity(
       WithRotation(g, hintCoords[1], hintCoords[2],
                    At(sol, hintCoords[1], hintCoords[2])),
       server, wrap)

\* The grid handleHintClick leaves on an unsolved game (lines 768-829): the
\* grid itself when no tile is incorrect, the corrected grid otherwise.
HintedGrid(g, sol, server, wrap, size) ==
    IF Len(IncorrectTiles(g, sol, size)) = 0
    THEN g
    ELSE ApplyHint(g, sol, server, wrap, HintCoords(g, sol, server, wrap, size))

\* ---- the App component ---------------------------------------------------
\* State after construction and the first render: the useState defaults, and
\* both effects scheduled by the mount.
Init ==
    /\ gridSize = MaxSize
    /\ isWrapping = FALSE
    /\ grid = <<>>
    /\ solution = <<>>
    /\ serverCoords = <<0, 0>>
    /\ terminals = <<>>
    /\ isWon = FALSE
    /\ score = 0
    /\ moves = 0
    /\ pendingEffects = {"newGame", "win"}
    /\ pc = "idle"
    /\ genCaller = "none"
    /\ connections = <<>>
    /\ visited = <<>>
    /\ stack = <<>>
    /\ extraLeft = 0

\* No handler runs while an effect of the last commit is still to be flushed
\* or while startNewGame is executing.
Idle == pc = "idle" /\ pendingEffects = {}

\* startNewGame entered (lines 514-523): generateGrid creates its arrays and
\* seeds the walk.  Every value of the previous game is dead from here on (the
\* updates queued by this call replace grid, solution, serverCoords, terminals,
\* isWon and score together), so the machine drops them at entry; caller
\* records who called and whether a setIsWon(true) of the same flush follows.
EnterNewGame(caller, wrap) ==
    /\ \E st \in WalkStarts(gridSize) :
         /\ connections' = st.connections
         /\ visited' = st.visited
         /\ stack' = st.stack
    /\ extraLeft' = ExtraConnections(gridSize)
    /\ pc' = "walk"
    /\ genCaller' = caller
    /\ isWrapping' = wrap
    /\ grid' = <<>>
    /\ solution' = <<>>
    /\ serverCoords' = <<0, 0>>
    /\ terminals' = <<>>
    /\ isWon' = FALSE
    /\ score' = gridSize * gridSize * 100
    /\ moves' = 0
    /\ pendingEffects' = {}
    /\ UNCHANGED gridSize

\* The flush of a commit that re-created startNewGame (the mount, or a change
\* of isWrapping): the effect of lines 531-533 calls startNewGame, then the
\* win-condition effect (lines 566-689), scheduled in the same flush, runs on
\* the closure of the render being flushed (the previous grid, terminals and
\* isWon with the isWrapping of that render); its setIsWon(true) is applied
\* after the setIsWon(false) of startNewGame.
FlushNewGame(wrap) ==
    EnterNewGame(IF WinEffectFires(isWon, grid, terminals, wrap)
                 THEN "effectThenWin" ELSE "effect", wrap)

\* The effects of the mount.
StartNewGameEffect ==
    /\ pc = "idle"
    /\ "newGame" \in pendingEffects
    /\ FlushNewGame(isWrapping)

\* The New Game button (line 850) calls startNewGame.
ClickNewGame ==
    /\ Idle
    /\ EnterNewGame("click", isWrapping)

\* The rest of startNewGame once the loops of generateGrid are done: typing,
\* server placement, scramble (lines 329-378), evaluation and the batched
\* state updates (lines 524-528).
FinishNewGame ==
    /\ pc = "densify"
    /\ extraLeft = 0
    /\ genCaller \in {"click", "effect", "effectThenWin"}
    /\ \E server \in Cells(gridSize) :
         \E rot \in AllRotations(gridSize, server) :
            /\ serverCoords' = server
            /\ grid' = checkConnectivity(FinalGrid(connections, server, rot),
                                         server, isWrapping)
    /\ solution' = SolutionRotations(connections)
    /\ terminals' = TerminalsOf(connections)
    /\ isWon' = (genCaller = "effectThenWin")
    /\ pendingEffects' = {"win"}
    /\ pc' = "idle"
    /\ genCaller' = "none"
    /\ connections' = <<>>
    /\ visited' = <<>>
    /\ stack' = <<>>
    /\ UNCHANGED <<gridSize, isWrapping, score, moves, extraLeft>>

\* The win-condition effect (lines 566-689) flushed on its own.
WinEffect ==
    /\ pc = "idle"
    /\ pendingEffects = {"win"}
    /\ IF WinEffectFires(isWon, grid, terminals, isWrapping)
       THEN /\ isWon' = TRUE
            /\ pendingEffects' = {"win"}
       ELSE /\ isWon' = isWon
            /\ pendingEffects' = {}
    /\ UNCHANGED <<gridSize, isWrapping, grid, solution, serverCoords, terminals,
                   score, moves, pc, genCaller>>
    /\ UNCHANGED genVars

\* grid[r]?.[c]: is there a tile at (r, c)
HasTile(g, r, c) == InRange(Len(g), r, c)

\* Variant of RotateTile without the isWon guard.
RotateTileIgnoresWon(r, c) ==
    /\ Idle
    /\ IF ~HasTile(grid, r, c) \/ At(grid, r, c).isServer
       THEN UNCHANGED vars
       ELSE /\ moves < MaxMoves
            /\ score' = score - 10
            /\ moves' = moves + 1
            /\ grid' = checkConnectivity(
                          WithRotation(grid, r, c, (At(grid, r, c).rotation + 1) % 4),
                          serverCoords, isWrapping)
            /\ pendingEffects' = {"win"}
            /\ UNCHANGED <<gridSize, isWrapping, solution, serverCoords, terminals,
                           isWon, pc, genCaller>>
            /\ UNCHANGED genVars

\* Variant of RotateTile without the isServer guard.
RotateTileServerToo(r, c) ==
    /\ Idle
    /\ IF ~HasTile(grid, r, c) \/ isWon
       THEN UNCHANGED vars
       ELSE /\ moves < MaxMoves
            /\ score' = score - 10
            /\ moves' = moves + 1
            /\ grid' = checkConnectivity(
                          WithRotation(grid, r, c, (At(grid, r, c).rotation + 1) % 4),
                          serverCoords, isWrapping)
            /\ pendingEffects' = {"win"}
            /\ UNCHANGED <<gridSize, isWrapping, solution, serverCoords, terminals,
                           isWon, pc, genCaller>>
            /\ UNCHANGED genVars

\* Variant of RotateTile that turns the tile a quarter turn the other way.
RotateTileBackwards(r, c) ==
    /\ Idle
    /\ IF ~HasTile(grid, r, c) \/ isWon \/ At(grid, r, c).isServer
       THEN UNCHANGED vars
       ELSE /\ moves < MaxMoves
            /\ score' = score - 10
            /\ moves' = moves + 1
            /\ grid' = checkConnectivity(
                          WithRotation(grid, r, c, (At(grid, r, c).rotation + 3) % 4),
                          serverCoords, isWrapping)
            /\ pendingEffects' = {"win"}
            /\ UNCHANGED <<gridSize, isWrapping, solution, serverCoords, terminals,
                           isWon, pc, genCaller>>
            /\ UNCHANGED genVars

\* rotateTile(r, c) (lines 535-563)
RotateTile(r, c) ==
    /\ Idle
    /\ IF ~HasTile(grid, r, c) \/ isWon \/ At(grid, r, c).isServer
       THEN UNCHANGED vars
       ELSE /\ moves < MaxMoves
            /\ score' = score - 10
            /\ moves' = moves + 1
            /\ grid' = checkConnectivity(
                          WithRotation(grid, r, c, (At(grid, r, c).rotation + 1) % 4),
                          serverCoords, isWrapping)
            /\ pendingEffects' = {"win"}
            /\ UNCHANGED <<gridSize, isWrapping, solution, serverCoords, terminals,
                           isWon, pc, genCaller>>
            /\ UNCHANGED genVars

\* Variant of HandleHintClick that stores the corrected grid without running
\* the evaluator on it.
HandleHintClickStale ==
    /\ Idle
    /\ IF isWon
       THEN UNCHANGED vars
       ELSE /\ moves < MaxMoves
            /\ score' = score - 250
            /\ moves' = moves + 1
            /\ IF Len(IncorrectTiles(grid, solution, gridSize)) = 0
               THEN grid' = grid
               ELSE \E hintCoords \in {HintCoords(grid, solution, serverCoords,
                                                    isWrapping, gridSize)} :
                       grid' = WithRotation(grid, hintCoords[1], hintCoords[2],
                                            At(solution, hintCoords[1], hintCoords[2]))
            /\ pendingEffects' = {"win"}
            /\ UNCHANGED <<gridSize, isWrapping, solution, serverCoords, terminals,
                           isWon, pc, genCaller>>
            /\ UNCHANGED genVars

\* handleHintClick (lines 761-834)
HandleHintClick ==
    /\ Idle
    /\ IF isWon
       THEN UNCHANGED vars
       ELSE /\ moves < MaxMoves
            /\ score' = score - 250
            /\ moves' = moves + 1
            /\ IF Len(IncorrectTiles(grid, solution, gridSize)) = 0
               THEN grid' = grid
               ELSE \E hintCoords \in {HintCoords(grid, solution, serverCoords,
                                                    isWrapping, gridSize)} :
                       grid' = ApplyHint(grid, solution, serverCoords, isWrapping,
                                         hintCoords)
            /\ pendingEffects' = {"win"}
            /\ UNCHANGED <<gridSize, isWrapping, solution, serverCoords, terminals,
                           isWon, pc, genCaller>>
            /\ UNCHANGED genVars

\* The Wrap Edges checkbox (line 870): setIsWrapping(e.target.checked).  The
\* render that follows re-creates startNewGame (its dependencies are gridSize
\* and isWrapping), and the effects of that commit are flushed before the next
\* event is handled.
ToggleWrapping ==
    /\ Idle
    /\ FlushNewGame(~isWrapping)

\* The coordinates rotateTile is called with (lines 693, 747): every cell of
\* the board, and one coordinate past each edge (a focused tile kept from an
\* earlier board).
RotateRequests(size) ==
    Cells(size) \cup {<<-1, 0>>, <<size, 0>>, <<0, -1>>, <<0, size>>}

Next ==
    \/ StartNewGameEffect
    \/ ClickNewGame
    \/ WalkStep
    \/ WalkDone
    \/ DensifyStep
    \/ FinishNewGame
    \/ WinEffect
    \/ \E rc \in RotateRequests(gridSize) : RotateTile(rc[1], rc[2])
    \/ HandleHintClick
    \/ ToggleWrapping

Spec == Init /\ [][Next]_vars

\* The server draw followed when single turns of the solved configuration are
\* tried: the first cell (in wrapping mode every cell is a translate of it).
SolveServers(size) == {<<0, 0>>}

\* SolveAll for a server draw among SolveServers.
SolveAt ==
    /\ pc = "densify"
    /\ extraLeft = 0
    /\ genCaller = "none"
    /\ \E server \in SolveServers(gridSize) :
         \E rot \in SolvedRotations(connections, server) :
            /\ serverCoords' = server
            /\ grid' = checkConnectivity(FinalGrid(connections, server, rot),
                                         server, isWrapping)
    /\ solution' = SolutionRotations(connections)
    /\ terminals' = TerminalsOf(connections)
    /\ pc' = "solved"
    /\ UNCHANGED <<gridSize, isWrapping, isWon, score, moves, pendingEffects, genCaller>>
    /\ UNCHANGED genVars

NextSolveAt == WalkStep \/ WalkDone \/ DensifyStep \/ SolveAt

SpecSolveAt == InitGen /\ [][NextSolveAt]_vars

\* ---- generation with a scramble near the Solution ------------------------
\* Side of the bounded boards generated with a scramble near the Solution.
NearSize == 3

\* Greatest number of tiles the scramble leaves off their Solution rotation.
MaxOff == 2

\* The draws of line 372 that leave at most MaxOff of the cells others off
\* the rotation sol gives them.
NearRotationsOf(sol, others) ==
    UNION {{[a \in others |-> IF a \in S THEN (At(sol, a[1], a[2]) + off[a]) % 4
                               ELSE At(sol, a[1], a[2])] :
               off \in [S -> 1..3]} :
              S \in {S \in SUBSET others : Cardinality(S) <= MaxOff}}

NearRotations(conns, server) ==
    NearRotationsOf(SolutionRotations(conns), Cells(Len(conns)) \ {server})

\* The server draws followed with a scramble near the Solution: the first
\* cell and the middle cell.
NearServers(size) == {<<0, 0>>, <<size \div 2, size \div 2>>}

\* generateGrid(NearSize, false) entered (lines 259-265)
InitNear ==
    /\ gridSize = NearSize
    /\ isWrapping = FALSE
    /\ InitGen

\* Typing, server placement and scramble (lines 329-378) for a draw of
\* NearRotations, followed by the evaluation of startNewGame (line 527).
ScrambleNear ==
    /\ pc = "densify"
    /\ extraLeft = 0
    /\ genCaller = "none"
    /\ \E server \in NearServers(gridSize) :
         \E rot \in NearRotations(connections, server) :
            /\ serverCoords' = server
            /\ grid' = checkConnectivity(FinalGrid(connections, server, rot),
                                         server, isWrapping)
    /\ solution' = SolutionRotations(connections)
    /\ terminals' = TerminalsOf(connections)
    /\ pc' = "scrambled"
    /\ UNCHANGED <<gridSize, isWrapping, isWon, score, moves, pendingEffects, genCaller>>
    /\ UNCHANGED genVars

NextNear == WalkStep \/ WalkDone \/ DensifyStep \/ ScrambleNear

SpecNear == InitNear /\ [][NextNear]_vars

\* ---- the evaluator on its own --------------------------------------------
\* The tiles of the evaluator's inputs: every type at each rotation that
\* exposes a different mask (two for a straight, one for a cross).
EvalTiles ==
    {t \in [type : TileType, rotation : 0..3] :
        \A q \in 0..(t.rotation - 1) :
           TILE_CONNECTIONS[t.type][q + 1] # TILE_CONNECTIONS[t.type][t.rotation + 1]}

\* A grid of the given tiles with the server flag at server and no cell
\* marked connected yet (the shape generateGrid returns, lines 366-375).
GridOf(size, tiles, server) ==
    [r1 \in 1..size |->
       [c1 \in 1..size |->
          [type      |-> tiles[<<r1 - 1, c1 - 1>>].type,
           rotation  |-> tiles[<<r1 - 1, c1 - 1>>].rotation,
           isServer  |-> (<<r1 - 1, c1 - 1>> = server),
           connected |-> FALSE]]]

\* Any grid of side EvalSize, any server coordinate, either mode.
InitEval ==
    /\ gridSize = EvalSize
    /\ isWrapping \in BOOLEAN
    /\ serverCoords \in Cells(EvalSize)
    /\ \E tiles \in [Cells(EvalSize) -> EvalTiles] :
         grid = GridOf(EvalSize, tiles, serverCoords)
    /\ solution = <<>>
    /\ terminals = <<>>
    /\ isWon = FALSE
    /\ score = 0
    /\ moves = 0
    /\ pendingEffects = {}
    /\ genCaller = "none"
    /\ pc = "input"
    /\ connections = <<>>
    /\ visited = <<>>
    /\ stack = <<>>
    /\ extraLeft = 0

\* checkConnectivity(grid, serverCoords, isWrapping) applied to the input.
Evaluate ==
    /\ pc = "input"
    /\ grid' = checkConnectivity(grid, serverCoords, isWrapping)
    /\ pc' = "evaluated"
    /\ UNCHANGED <<gridSize, isWrapping, solution, serverCoords, terminals, isWon,
                   score, moves, pendingEffects, genCaller>>
    /\ UNCHANGED genVars

NextEval == Evaluate

SpecEval == InitEval /\ [][NextEval]_vars

\* The evaluator's inputs with the server in the first cell: every grid of
\* side EvalSize in either mode (the flags the input carries are drawn where
\* they are used).
InitEvalFlags ==
    /\ serverCoords = <<0, 0>>
    /\ InitEval

SpecEvalFlags == InitEvalFlags /\ [][NextEval]_vars

\* ---- reference notions used by the properties ----------------------------
\* The opposite of direction index i (N <-> S, E <-> W).
Opposite(i) == ((i + 1) % 4) + 1

\* The topological neighbour of cell a in direction index i: the set holding
\* it, or the empty set when the offset leaves a bounded grid.
TopoNeighbor(size, wrap, a, i) ==
    LET r == a[1] + DIRECTIONS[i].r
        c == a[2] + DIRECTIONS[i].c
    IN IF wrap THEN {<<r % size, c % size>>}
       ELSE {<<r, c>>} \cap Cells(size)

\* The bit of direction index i in the mask cell a of g currently exposes.
Exposes(g, a, i) == HasBit(TILE_CONNECTIONS[g[a[1] + 1][a[2] + 1].type]
                                           [g[a[1] + 1][a[2] + 1].rotation + 1],
                           DIRECTIONS[i].mask)

\* a and b are joined: b is a's neighbour in some direction d, a exposes d
\* and b exposes the opposite of d.
Joined(g, wrap, a, b) ==
    \E i \in 1..4 :
       /\ b \in TopoNeighbor(Len(g), wrap, a, i)
       /\ Exposes(g, a, i)
       /\ Exposes(g, b, Opposite(i))

\* The cells reachable from the cells of S along joined pairs.
RECURSIVE ReachFrom(_, _, _)
ReachFrom(g, wrap, S) ==
    LET T == S \cup {b \in Cells(Len(g)) : \E a \in S : Joined(g, wrap, a, b)}
    IN IF T = S THEN S ELSE ReachFrom(g, wrap, T)

\* The cells whose connected flag is set.
Flagged(g) == {a \in Cells(Len(g)) : g[a[1] + 1][a[2] + 1].connected}

\* A game is on display: startNewGame has completed at least once and is not
\* executing.
InGame == pc = "idle" /\ grid # <<>>

\* ---- properties ----------------------------------------------------------

\* C1: in every state of a game reached by new-game, rotate and hint
\* operations, the cells flagged connected are exactly the cells reachable
\* from the server under the current rotations: no flag is stale.
C1_FlagsFresh ==
    InGame => Flagged(grid) = ReachFrom(grid, isWrapping, {serverCoords})

\* C1 witness: a rotate or a hint has changed the grid of a game in which
\* some cell besides the server is connected and some cell is not.
C1_Witness ==
    /\ InGame
    /\ moves > 0
    /\ Cardinality(Flagged(grid)) > 1
    /\ Cardinality(Flagged(grid)) < gridSize * gridSize

\* C2: for every grid, server coordinate and mode, checkConnectivity flags
\* exactly the cells reachable from the server along pairs of adjacent cells
\* that expose facing bits, the server included; a cell that exposes a bit
\* toward a neighbour that does not expose the opposite bit does not connect
\* it.
C2_EvaluatorIsReachability ==
    pc = "evaluated" =>
       /\ Flagged(grid) = ReachFrom(grid, isWrapping, {serverCoords})
       /\ serverCoords \in Flagged(grid)

\* C2 witness: an evaluated grid in which a connected cell exposes a bit toward
\* an existing neighbour that is left unconnected, and another cell is
\* connected through a reciprocated pair.
C2_Witness ==
    /\ pc = "evaluated"
    /\ Cardinality(Flagged(grid)) > 1
    /\ \E a \in Flagged(grid) : \E i \in 1..4 :
          /\ Exposes(grid, a, i)
          /\ \E b \in TopoNeighbor(gridSize, isWrapping, a, i) : b \notin Flagged(grid)

\* C3: for every generated grid, with every tile at its Solution rotation the
\* evaluator flags every cell connected.
C3_SolvedFullyConnected ==
    pc = "solved" => Flagged(grid) = Cells(gridSize)

\* C3 witness: a solved, evaluated grid whose generation went through
\* densification into a tee.
C3_Witness ==
    /\ pc = "solved"
    /\ \E a \in Cells(gridSize) : grid[a[1] + 1][a[2] + 1].type = "T_JUNCTION"
    /\ Flagged(grid) = Cells(gridSize)

\* The generation-time masks are reciprocal: wherever the neighbour exists, a
\* cell has the bit of a direction exactly when the neighbour has the bit of
\* the opposite direction.
Reciprocal(conns, size, wrap) ==
    \A a \in Cells(size) : \A i \in 1..4 :
       \A b \in TopoNeighbor(size, wrap, a, i) :
          HasBit(conns[a[1] + 1][a[2] + 1], DIRECTIONS[i].mask)
             <=> HasBit(conns[b[1] + 1][b[2] + 1], DIRECTIONS[Opposite(i)].mask)

\* C4: at the end of the spanning walk and after every round of
\* densification, the generation-time masks have no one-way edge.
C4_Reciprocity ==
    pc = "densify" => Reciprocal(connections, gridSize, isWrapping)

\* C4 witness: densification is over and has given some cell a third bit.
C4_Witness ==
    /\ pc = "densify"
    /\ extraLeft = 0
    /\ \E a \in Cells(gridSize) : NumConnections(connections[a[1] + 1][a[2] + 1]) >= 3

\* C5: for every generated grid, the configuration with every non-server tile
\* at its Solution rotation passes the win verifier.
C5_SolvedPassesVerifier ==
    pc = "solved" => isWinConditionMet(grid, terminals, isWrapping)

\* C5 witness: a solved grid with terminals in bounded mode, verified.
C5_Witness ==
    /\ pc = "solved"
    /\ ~isWrapping
    /\ Len(terminals) > 0
    /\ isWinConditionMet(grid, terminals, isWrapping)

\* Coverage as the specification states it: every terminal connected, or every
\* cell when there is no terminal.
CoverageHolds(g, terms) ==
    IF terms = <<>>
    THEN Flagged(g) = Cells(Len(g))
    ELSE \A k \in 1..Len(terms) : terms[k] \in Flagged(g)

\* No leak as the specification states it: every bit a connected cell exposes
\* points to an existing neighbour that is connected and exposes the opposite
\* bit.
NoLeakHolds(g, wrap) ==
    \A a \in Flagged(g) : \A i \in 1..4 :
       Exposes(g, a, i) =>
          \E b \in TopoNeighbor(Len(g), wrap, a, i) :
             b \in Flagged(g) /\ Exposes(g, b, Opposite(i))

\* C6: the win verifier reports solved exactly when coverage holds and no
\* connected cell leaks, in bounded and in wrapping mode.
C6_VerifierIffCoverageAndNoLeak ==
    InGame =>
       \A w \in BOOLEAN :
          isWinConditionMet(grid, terminals, w)
             <=> (CoverageHolds(grid, terminals) /\ NoLeakHolds(grid, w))

\* C6 witness: a game generated in wrapping mode in which coverage holds and
\* the verifier, run in bounded mode, rejects the grid for a leak.
C6_Witness ==
    /\ InGame
    /\ pendingEffects = {}
    /\ isWrapping
    /\ CoverageHolds(grid, terminals)
    /\ isWinConditionMet(grid, terminals, TRUE)
    /\ ~isWinConditionMet(grid, terminals, FALSE)

\* C7: when a rotate or a hint leaves a grid that passes the win verifier, the
\* game is marked solved before the next request is handled: whenever
\* handlers can run, a passing grid is marked solved.
C7_WinMarkedBeforeNextRequest ==
    (InGame /\ Idle /\ isWinConditionMet(grid, terminals, isWrapping)) => isWon

\* C7 witness: the effect has just marked solved a game in which a rotate or a
\* hint was handled.
C7_Witness ==
    /\ InGame
    /\ isWon
    /\ moves > 0
    /\ pendingEffects = {"win"}

\* C8: once solved, a game stays solved and its grid is frozen: any step that
\* is not the start of a new game leaves the grid and the solved flag as
\* they are.
C8_SolvedIsTerminal ==
    [][(isWon /\ pc' # "walk") => (isWon' /\ grid' = grid)]_vars

\* C8 witness: a solved game in which handlers can run again.
C8_Witness ==
    /\ InGame
    /\ Idle
    /\ isWon
    /\ moves > 0

\* The cells flagged as server.
Servers(g) == {a \in Cells(Len(g)) : g[a[1] + 1][a[2] + 1].isServer}

\* C9: in every state of a game exactly one cell is the server, it is the
\* cell at serverCoords, and its rotation is its Solution rotation.
C9_OneFixedServer ==
    InGame =>
       /\ Servers(grid) = {serverCoords}
       /\ grid[serverCoords[1] + 1][serverCoords[2] + 1].rotation
             = solution[serverCoords[1] + 1][serverCoords[2] + 1]

\* C9 witness: a game in which a rotate and a hint have both been handled.
C9_Witness ==
    /\ InGame
    /\ moves = 2
    /\ score = gridSize * gridSize * 100 - 260

\* C10: a rotate request on the server cell, or with a row or column outside
\* the grid, changes nothing.
C10_RotateNoOp ==
    [][\A rc \in RotateRequests(gridSize) :
          (RotateTile(rc[1], rc[2])
             /\ (~InRange(gridSize, rc[1], rc[2]) \/ rc = serverCoords))
             => UNCHANGED vars]_vars

\* C10 witness: an unsolved game with moves left, where such a request is a
\* no-op for no other reason than its coordinate.
C10_Witness ==
    /\ InGame
    /\ Idle
    /\ ~isWon
    /\ moves < MaxMoves

\* The mask a quarter turn clockwise: N -> E -> S -> W -> N.
RotCW(mask) == ((mask * 2) % 16) + (mask \div 8)

\* The mask the tile at cell a of g currently exposes.
ExposedMask(g, a) == TileMask(At(g, a[1], a[2]))

\* The rotations, and the kinds and server flags, of g and h agree outside
\* the cells of S.
SameRotationsExcept(g, h, S) ==
    \A a \in Cells(Len(g)) \ S : At(h, a[1], a[2]).rotation = At(g, a[1], a[2]).rotation

SameKinds(g, h) ==
    \A a \in Cells(Len(g)) :
       /\ At(h, a[1], a[2]).type = At(g, a[1], a[2]).type
       /\ At(h, a[1], a[2]).isServer = At(g, a[1], a[2]).isServer

\* C11: a rotate request on an in-range non-server cell of an unsolved game
\* turns that cell's rotation to (r + 1) mod 4, which turns its exposed mask a
\* quarter turn clockwise; no other rotation, no kind and no server flag
\* changes.
C11_RotateTurnsOneTile ==
    [][\A rc \in Cells(gridSize) :
          (RotateTile(rc[1], rc[2]) /\ ~isWon /\ rc # serverCoords)
             => /\ At(grid', rc[1], rc[2]).rotation
                     = (At(grid, rc[1], rc[2]).rotation + 1) % 4
                /\ ExposedMask(grid', rc) = RotCW(ExposedMask(grid, rc))
                /\ SameRotationsExcept(grid, grid', {rc})
                /\ SameKinds(grid, grid')]_vars

\* C11 witness: a first rotate has just been applied to a game whose board
\* holds a tile that is not symmetric under a half turn.
C11_Witness ==
    /\ InGame
    /\ moves = 1
    /\ score = gridSize * gridSize * 100 - 10
    /\ pendingEffects = {"win"}
    /\ \E a \in Cells(gridSize) \ {serverCoords} :
          At(grid, a[1], a[2]).type \in {"TERMINAL", "CORNER", "T_JUNCTION"}

\* The non-server cells whose rotation differs from Solution.
IncorrectCells(g, sol) ==
    {a \in Cells(Len(g)) :
        ~At(g, a[1], a[2]).isServer /\ At(g, a[1], a[2]).rotation # At(sol, a[1], a[2])}

\* The cells whose rotation differs between g and h.
ChangedCells(g, h) ==
    {a \in Cells(Len(g)) : At(h, a[1], a[2]).rotation # At(g, a[1], a[2]).rotation}

\* C12: on an unsolved grid with an incorrect tile a hint request selects a
\* cell, and the number of connected cells after the hint is applied is not
\* smaller than before.
C12_HintNeverDisconnects ==
    [][(HandleHintClick /\ ~isWon /\ IncorrectCells(grid, solution) # {})
          => /\ Cardinality(ChangedCells(grid, grid')) = 1
             /\ ConnectedCount(grid') >= ConnectedCount(grid)]_vars

\* The gain of correcting the incorrect cell a alone: the number of cells
\* reachable from the server once a is at its Solution rotation, minus the
\* number of cells connected now.
Gain(g, sol, server, wrap, a) ==
    Cardinality(ReachFrom(WithRotation(g, a[1], a[2], At(sol, a[1], a[2])),
                          wrap, {server}))
       - Cardinality(Flagged(g))

\* The greatest gain over the incorrect cells (of a grid that has one).
MaxGain(g, sol, server, wrap) ==
    LET gains == {Gain(g, sol, server, wrap, a) : a \in IncorrectCells(g, sol)}
    IN CHOOSE m \in gains : \A n \in gains : n <= m

\* C12 as amended: on an unsolved grid with an incorrect tile a hint request
\* selects a cell; when some incorrect cell has positive gain, the number of
\* connected cells after the hint is greater than before.
C12_HintGainsWhenPositive ==
    [][(HandleHintClick /\ ~isWon /\ IncorrectCells(grid, solution) # {})
          => /\ Cardinality(ChangedCells(grid, grid')) = 1
             /\ MaxGain(grid, solution, serverCoords, isWrapping) > 0
                   => ConnectedCount(grid') > ConnectedCount(grid)]_vars

\* C12 witness: a first hint has just been applied and more than the server
\* is connected, with a tile still to correct.
C12_Witness ==
    /\ InGame
    /\ moves = 1
    /\ score = gridSize * gridSize * 100 - 250
    /\ pendingEffects = {"win"}
    /\ Cardinality(Flagged(grid)) > 1
    /\ IncorrectCells(grid, solution) # {}

\* The solved flag after at most k hint requests in a row, each followed by
\* the win-condition effect, from the grid g with solved flag won; h is the
\* grid a hint leaves.
RECURSIVE SolvedByHints(_, _, _)
RECURSIVE SolvedAfterHint(_, _)
SolvedAfterHint(h, k) ==
    SolvedByHints(h, WinEffectFires(FALSE, h, terminals, isWrapping), k)

SolvedByHints(g, won, k) ==
    IF won \/ k = 0 THEN won
    ELSE SolvedAfterHint(
            HintedGrid(g, solution, serverCoords, isWrapping, gridSize), k - 1)

\* C13: from any state of a game of size N in which requests are accepted,
\* hint requests in a row reach a solved game after at most N * N of them.
C13_HintsSolveWithinNSquared ==
    (InGame /\ Idle) => SolvedByHints(grid, isWon, gridSize * gridSize)

\* C13 witness: two hints in a row have solved a game.
C13_Witness ==
    /\ InGame
    /\ Idle
    /\ isWon
    /\ moves = 2
    /\ score = gridSize * gridSize * 100 - 500

\* The first cell of the non-empty set S in row-major order.
RowMajorFirst(S, size) ==
    CHOOSE a \in S : \A b \in S : a[1] * size + a[2] <= b[1] * size + b[2]

\* The incorrect cells of greatest gain.
BestCells(g, sol, server, wrap) ==
    {a \in IncorrectCells(g, sol) :
        Gain(g, sol, server, wrap, a) = MaxGain(g, sol, server, wrap)}

\* C14: when some incorrect cell has positive gain, the hint corrects an
\* incorrect cell of greatest gain, the first in row-major order among those.
C14_HintTakesFirstBestGain ==
    [][(HandleHintClick /\ ~isWon /\ IncorrectCells(grid, solution) # {}
          /\ MaxGain(grid, solution, serverCoords, isWrapping) > 0)
          => ChangedCells(grid, grid')
                = {RowMajorFirst(BestCells(grid, solution, serverCoords, isWrapping),
                                 gridSize)}]_vars

\* C14 witness: a hint can be requested where two incorrect cells tie for the
\* greatest gain, which is positive, and a third has a smaller gain.
C14_Witness ==
    /\ InGame
    /\ Idle
    /\ ~isWon
    /\ moves < MaxMoves
    /\ IncorrectCells(grid, solution) # {}
    /\ MaxGain(grid, solution, serverCoords, isWrapping) > 0
    /\ Cardinality(BestCells(grid, solution, serverCoords, isWrapping)) = 2
    /\ Cardinality(IncorrectCells(grid, solution)) = 3

\* The incorrect cells with a topological neighbour that is flagged connected.
AdjacentIncorrect(g, sol, wrap) ==
    {a \in IncorrectCells(g, sol) :
        \E i \in 1..4 : \E b \in TopoNeighbor(Len(g), wrap, a, i) : b \in Flagged(g)}

\* The cell the fallback names: the first incorrect cell next to a connected
\* cell, or the first incorrect cell when there is none.
FallbackCell(g, sol, wrap) ==
    IF AdjacentIncorrect(g, sol, wrap) # {}
    THEN RowMajorFirst(AdjacentIncorrect(g, sol, wrap), Len(g))
    ELSE RowMajorFirst(IncorrectCells(g, sol), Len(g))

\* C15: when no incorrect cell has positive gain, the hint corrects the first
\* incorrect cell in row-major order that has a neighbour flagged connected
\* under the current mode, or the first incorrect cell when none has.
C15_HintFallback ==
    [][(HandleHintClick /\ ~isWon /\ IncorrectCells(grid, solution) # {}
          /\ MaxGain(grid, solution, serverCoords, isWrapping) <= 0)
          => ChangedCells(grid, grid') = {FallbackCell(grid, solution, isWrapping)}]_vars

\* C15 witness: a hint can be requested where no incorrect cell has positive
\* gain, some cell has gain zero, and the fallback cell is not the first cell
\* of gain zero.
C15_Witness ==
    /\ InGame
    /\ Idle
    /\ ~isWon
    /\ moves < MaxMoves
    /\ IncorrectCells(grid, solution) # {}
    /\ MaxGain(grid, solution, serverCoords, isWrapping) = 0
    /\ FallbackCell(grid, solution, isWrapping)
          # RowMajorFirst(BestCells(grid, solution, serverCoords, isWrapping), gridSize)

\* C16: an applied hint sets the rotation of exactly one cell, a non-server
\* cell that was not at its Solution rotation, to its Solution rotation; no
\* other rotation, no kind and no server flag changes, and one cell fewer is
\* incorrect.
C16_HintCorrectsOneTile ==
    [][(HandleHintClick /\ ~isWon /\ IncorrectCells(grid, solution) # {})
          => /\ \E a \in IncorrectCells(grid, solution) :
                   /\ At(grid', a[1], a[2]).rotation = At(solution, a[1], a[2])
                   /\ ChangedCells(grid, grid') = {a}
                   /\ SameRotationsExcept(grid, grid', {a})
             /\ SameKinds(grid, grid')
             /\ solution' = solution
             /\ Cardinality(IncorrectCells(grid', solution'))
                   = Cardinality(IncorrectCells(grid, solution)) - 1]_vars

\* C16 witness: a first hint has just been applied and two cells are still
\* incorrect.
C16_Witness ==
    /\ InGame
    /\ moves = 1
    /\ score = gridSize * gridSize * 100 - 250
    /\ pendingEffects = {"win"}
    /\ Cardinality(IncorrectCells(grid, solution)) = 2

\* The grid g with the connected flag set on exactly the cells of F.
WithFlags(g, F) ==
    [r1 \in 1..Len(g) |->
       [c1 \in 1..Len(g) |->
          [g[r1][c1] EXCEPT !.connected = (<<r1 - 1, c1 - 1>> \in F)]]]

\* C17: the evaluator is idempotent and does not read its input's connected
\* flags: the output evaluates to itself, the input evaluates to the same
\* output whatever flags it carries, and kinds, rotations and server flags
\* pass through unchanged.
C17_EvaluatorIdempotent ==
    [][pc = "input"
          => /\ checkConnectivity(grid', serverCoords, isWrapping) = grid'
             /\ \A F \in SUBSET Cells(gridSize) :
                   checkConnectivity(WithFlags(grid, F), serverCoords, isWrapping) = grid'
             /\ SameRotationsExcept(grid, grid', {})
             /\ SameKinds(grid, grid')]_vars

\* C17 witness: an evaluated wrapping grid whose output flags differ from the
\* flags of the input (none set): two cells are connected, the others not.
C17_Witness ==
    /\ pc = "evaluated"
    /\ isWrapping
    /\ Cardinality(Flagged(grid)) = 2


\* C18: the step that ends startNewGame (New Game button, mount effect or wrap
\* toggle) leaves isWon false, and installs grid, solution, serverCoords and
\* terminals of one generation together: a board and a Solution of side
\* gridSize, the one server tile at serverCoords, and as terminals exactly the
\* cells whose Solution mask has one bit.
C18_NewGameUnsolved ==
    [][(pc = "densify" /\ pc' = "idle")
          => /\ isWon' = FALSE
             /\ Len(grid') = gridSize
             /\ Len(solution') = gridSize
             /\ Servers(grid') = {serverCoords'}
             /\ {terminals'[i] : i \in 1..Len(terminals')}
                   = {a \in Cells(gridSize) :
                         NumConnections(TILE_CONNECTIONS[At(grid', a[1], a[2]).type]
                                           [At(solution', a[1], a[2]) + 1]) = 1}]_vars


\* The verdict of the win verifier on a grid of the current game: the grid as
\* the evaluator flags it, checked against the game's terminals.
Verdict(g) ==
    isWinConditionMet(checkConnectivity(g, serverCoords, isWrapping),
                      terminals, isWrapping)

\* The grids with the kinds and server of g in which every tile exposes the
\* mask that tile has at the rotation want gives it: from cell i on in
\* row-major order, the cells before i left as they are in g.
RECURSIVE GridsExposingFrom(_, _, _)
GridsExposingFrom(g, want, i) ==
    IF i > Len(g) * Len(g) THEN {g}
    ELSE LET rc == CellAt(Len(g), i)
             table == TILE_CONNECTIONS[At(g, rc[1], rc[2]).type]
         IN {WithRotation(h, rc[1], rc[2], q) :
                h \in GridsExposingFrom(g, want, i + 1),
                q \in {q \in 0..3 : table[q + 1] = table[At(want, rc[1], rc[2]) + 1]}}

GridsExposing(g, want) == GridsExposingFrom(g, want, 1)

\* the rotations of a grid, as a table like the Solution
RotationsOf(g) ==
    [r1 \in 1..Len(g) |-> [c1 \in 1..Len(g) |-> g[r1][c1].rotation]]

\* C19: in every game, each grid whose tiles all expose their generation-time
\* masks is reported solved, whatever rotations produce those masks, and each
\* grid with the kinds and exposed masks of the current grid gets the verdict
\* of the current grid.
C19_VerdictIgnoresSolution ==
    InGame =>
       /\ \A h \in GridsExposing(grid, solution) : Verdict(h)
       /\ \E verdict \in {Verdict(grid)} :
             \A h \in GridsExposing(grid, RotationsOf(grid)) : Verdict(h) = verdict

\* C19 witness: a game marked solved in which a straight tile stands half a
\* turn away from its Solution rotation.
C19_Witness ==
    /\ InGame
    /\ isWon
    /\ grid \in GridsExposing(grid, solution)
    /\ \E a \in Cells(gridSize) :
          /\ At(grid, a[1], a[2]).type = "STRAIGHT"
          /\ At(grid, a[1], a[2]).rotation = (At(solution, a[1], a[2]) + 2) % 4


\* C20: from the configuration with every tile at its Solution rotation,
\* turning one tile other than the server to a rotation that exposes a mask
\* different from its generation-time mask gives a grid the win verifier
\* rejects.
C20_OneWrongTileUnsolved ==
    pc = "solved" =>
       \A a \in Cells(gridSize) \ {serverCoords} : \A q \in 0..3 :
          TILE_CONNECTIONS[At(grid, a[1], a[2]).type][q + 1] # ExposedMask(grid, a)
             => ~isWinConditionMet(
                    checkConnectivity(WithRotation(grid, a[1], a[2], q),
                                      serverCoords, isWrapping),
                    terminals, isWrapping)

\* C20 witness: a solved grid of side 3 with terminals and a tile whose turn
\* leaves every terminal connected, so that the verifier rejects the grid for
\* a leak alone.
C20_Witness ==
    /\ pc = "solved"
    /\ gridSize = 3
    /\ Len(terminals) > 0
    /\ \E a \in Cells(gridSize) \ {serverCoords} : \E q \in 0..3 :
          LET h == checkConnectivity(WithRotation(grid, a[1], a[2], q),
                                     serverCoords, isWrapping)
          IN /\ ExposedMask(h, a) # ExposedMask(grid, a)
             /\ CoverageHolds(h, terminals)
             /\ ~isWinConditionMet(h, terminals, isWrapping)


TerminalCells(g) ==
    {a \in Cells(Len(g)) : At(g, a[1], a[2]).type = "TERMINAL"}

C22_UniqueSolvedConfiguration ==
    (pc = "scrambled" /\ isWinConditionMet(grid, terminals, isWrapping))
       => \A a \in Cells(gridSize) :
             ExposedMask(grid, a)
                = TILE_CONNECTIONS[At(grid, a[1], a[2]).type][At(solution, a[1], a[2]) + 1]


\* C23: for every grid, the output of the evaluator passes the no-leak
\* re-check of the win verifier.
C23_EvaluatedNeverLeaks ==
    pc = "evaluated" => NoLeak(grid, isWrapping)

\* C23 as amended: in the output of the evaluator, every bit a connected cell
\* exposes toward an existing neighbour that exposes the opposite bit leads to
\* a connected cell (a connected cell may still expose a bit that leaves a
\* bounded board or that its neighbour does not return).
C23_EvaluatedClosedUnderJoins ==
    pc = "evaluated" =>
       \A a \in Flagged(grid) : \A i \in 1..4 :
          Exposes(grid, a, i) =>
             \A b \in TopoNeighbor(gridSize, isWrapping, a, i) :
                Exposes(grid, b, Opposite(i)) => b \in Flagged(grid)

\* C23 witness: an evaluated bounded grid with three connected cells, one of
\* them exposing a bit that leaves the board and one a bit its neighbour does
\* not return.
C23_Witness ==
    /\ pc = "evaluated"
    /\ ~isWrapping
    /\ Cardinality(Flagged(grid)) = 3
    /\ \E a \in Flagged(grid) : \E i \in 1..4 :
          Exposes(grid, a, i) /\ TopoNeighbor(gridSize, isWrapping, a, i) = {}
    /\ \E a \in Flagged(grid) : \E i \in 1..4 :
          /\ Exposes(grid, a, i)
          /\ \E b \in TopoNeighbor(gridSize, isWrapping, a, i) :
                ~Exposes(grid, b, Opposite(i))


\* C24: the neighbour arithmetic of the walk, the evaluator, the verifier and
\* the hint, for every cell and direction of the board being generated.  In
\* wrapping mode the neighbour always counts and is the cell whose row and
\* column are those of the offset cell modulo the side; in bounded mode it
\* counts exactly when the offset cell is on the board, and then it is the
\* offset cell; in both modes the neighbour of the neighbour in the direction
\* the code names as `from` is the cell itself.
C24_NeighborArithmetic ==
    \A a \in Cells(gridSize) : \A i \in 1..4 :
       LET dir == DIRECTIONS[i]
           n == Neighbor(gridSize, isWrapping, a[1], a[2], dir)
           back == DIRECTIONS[CHOOSE j \in 1..4 : DIRECTIONS[j].mask = FromMask(dir)]
       IN /\ isWrapping =>
               /\ n.ok
               /\ <<n.r, n.c>> \in Cells(gridSize)
               /\ \E k \in {-1, 0, 1} : n.r = a[1] + dir.r + k * gridSize
               /\ \E k \in {-1, 0, 1} : n.c = a[2] + dir.c + k * gridSize
          /\ ~isWrapping =>
               /\ n.ok <=> <<a[1] + dir.r, a[2] + dir.c>> \in Cells(gridSize)
               /\ n.ok => <<n.r, n.c>> = <<a[1] + dir.r, a[2] + dir.c>>
          /\ n.ok =>
               /\ back.r = -dir.r
               /\ back.c = -dir.c
               /\ \E m \in {Neighbor(gridSize, isWrapping, n.r, n.c, back)} :
                     m.ok /\ <<m.r, m.c>> = a

\* C24 witness: a walk on a wrapping board of side 3 has joined the first
\* cell to the last row through the top edge.
C24_Witness ==
    /\ pc = "densify"
    /\ isWrapping
    /\ gridSize = 3
    /\ HasBit(At(connections, 0, 0), 1)
    /\ HasBit(At(connections, 2, 0), 4)


\* The number of reciprocal edges a connection array records: half the number
\* of set bits.
EdgeCount(conns) ==
    LET RECURSIVE BitsFrom(_)
        BitsFrom(i) ==
           IF i > Len(conns) * Len(conns) THEN 0
           ELSE NumConnections(At(conns, CellAt(Len(conns), i)[1], CellAt(Len(conns), i)[2]))
                   + BitsFrom(i + 1)
    IN BitsFrom(1) \div 2

\* a and b are joined in a connection array: b is a's neighbour in a direction
\* whose bit a has, and b has the opposite bit.
MaskJoined(conns, wrap, a, b) ==
    \E i \in 1..4 :
       /\ b \in TopoNeighbor(Len(conns), wrap, a, i)
       /\ HasBit(At(conns, a[1], a[2]), DIRECTIONS[i].mask)
       /\ HasBit(At(conns, b[1], b[2]), DIRECTIONS[Opposite(i)].mask)

\* The cells reachable from the cells of S along the edges of a connection array.
RECURSIVE MaskReach(_, _, _)
MaskReach(conns, wrap, S) ==
    LET T == S \cup {b \in Cells(Len(conns)) : \E a \in S : MaskJoined(conns, wrap, a, b)}
    IN IF T = S THEN S ELSE MaskReach(conns, wrap, T)

\* the cells not yet visited by the walk
Unvisited(vis) == {a \in Cells(Len(vis)) : ~At(vis, a[1], a[2])}

\* Twice the cells still to visit plus the height of the stack: a push visits
\* a cell, a pop shortens the stack.
WalkMeasure(vis, stk) == 2 * Cardinality(Unvisited(vis)) + Len(stk)

\* C25: every iteration of the spanning walk lowers WalkMeasure, so the walk
\* ends; when it ends the stack is empty, every cell is visited, and the edges
\* recorded are gridSize * gridSize - 1 in number and join every cell to the
\* first one (a connected graph with one edge fewer than cells has no cycle).
C25_WalkBuildsSpanningTree ==
    [][/\ (pc = "walk" /\ pc' = "walk")
            => WalkMeasure(visited', stack') < WalkMeasure(visited, stack)
       /\ (pc = "walk" /\ pc' = "densify")
            => /\ stack = <<>>
               /\ Unvisited(visited) = {}
               /\ EdgeCount(connections) = gridSize * gridSize - 1
               /\ MaskReach(connections, isWrapping, {<<0, 0>>}) = Cells(gridSize)]_vars

\* C25 witness: the walk over a wrapping board of side 3 has just ended with
\* eight edges, and densification has not begun.
C25_Witness ==
    /\ pc = "densify"
    /\ extraLeft = ExtraConnections(gridSize)
    /\ isWrapping
    /\ gridSize = 3
    /\ stack = <<>>
    /\ EdgeCount(connections) = 8


\* the cells whose mask in a connection array has k bits
CellsWithBits(conns, k) ==
    {a \in Cells(Len(conns)) : NumConnections(At(conns, a[1], a[2])) = k}

\* C26: when the spanning walk ends, before densification, every cell's mask
\* has at most 2 bits.
C26_WalkAtMostTwoBits ==
    [][(pc = "walk" /\ pc' = "densify")
          => CellsWithBits(connections, 3) \cup CellsWithBits(connections, 4) = {}]_vars

\* C26 as amended: when the spanning walk ends, before densification, every
\* cell's mask has at least one bit and at least two cells have exactly one
\* (masks of three bits occur: see the witness).
C26_WalkLeavesTerminals ==
    [][(pc = "walk" /\ pc' = "densify")
          => /\ CellsWithBits(connections, 0) = {}
             /\ Cardinality(CellsWithBits(connections, 1)) >= 2]_vars

\* C26 witness: the walk has just ended and left a cell with three bits.
C26_Witness ==
    /\ pc = "densify"
    /\ extraLeft = ExtraConnections(gridSize)
    /\ EdgeCount(connections) = gridSize * gridSize - 1
    /\ CellsWithBits(connections, 3) # {}


\* the direction indices whose bit is set in a mask
BitsOf(mask) == {i \in 1..4 : HasBit(mask, DIRECTIONS[i].mask)}

\* The kind the specification gives a mask: by its number of bits, a two-bit
\* mask being a straight when its two directions are opposite.
KindOf(mask) ==
    CASE Cardinality(BitsOf(mask)) = 1 -> "TERMINAL"
      [] Cardinality(BitsOf(mask)) = 2 ->
            IF \E i \in BitsOf(mask) : Opposite(i) \in BitsOf(mask)
            THEN "STRAIGHT" ELSE "CORNER"
      [] Cardinality(BitsOf(mask)) = 3 -> "T_JUNCTION"
      [] Cardinality(BitsOf(mask)) = 4 -> "CROSS"
      [] OTHER -> "none"

\* C27: in every generated grid, every cell's kind is the kind of its
\* generation-time mask, the mask stands in the rotation table of that kind
\* (the fallback to rotation 0 is not taken), the entry of the table at the
\* Solution rotation is the mask, and the terminal list holds exactly the
\* cells with a one-bit mask, each once.
C27_TypingMatchesMasks ==
    pc = "solved" =>
       /\ \A a \in Cells(gridSize) :
             LET mask == At(connections, a[1], a[2])
                 kind == At(grid, a[1], a[2]).type
             IN /\ kind = KindOf(mask)
                /\ IndexOf(TILE_CONNECTIONS[kind], mask) # -1
                /\ TILE_CONNECTIONS[kind][At(solution, a[1], a[2]) + 1] = mask
       /\ {terminals[k] : k \in 1..Len(terminals)} = CellsWithBits(connections, 1)
       /\ Len(terminals) = Cardinality(CellsWithBits(connections, 1))

\* C27 witness: a generated grid of side 3 holding a terminal, a straight, a
\* corner and a tee.
C27_Witness ==
    /\ pc = "solved"
    /\ gridSize = 3
    /\ \A kind \in {"TERMINAL", "STRAIGHT", "CORNER", "T_JUNCTION"} :
          \E a \in Cells(gridSize) : At(grid, a[1], a[2]).type = kind


\* the bits of a connection array that point off a bounded board
OffGridBits(conns) ==
    {<<a, i>> \in Cells(Len(conns)) \X (1..4) :
        /\ HasBit(At(conns, a[1], a[2]), DIRECTIONS[i].mask)
        /\ TopoNeighbor(Len(conns), FALSE, a, i) = {}}

\* C28: densification starts with floor(0.4 * N * N) rounds to run and typing
\* follows when none is left; every round counts one down and adds one
\* reciprocal edge or none; the grid typed has between N * N - 1 and
\* N * N - 1 + floor(0.4 * N * N) edges, and in bounded mode no bit of its
\* masks points off the board.
C28_DensificationBounds ==
    [][/\ (pc = "walk" /\ pc' = "densify")
            => /\ extraLeft' = (4 * gridSize * gridSize) \div 10
               /\ 10 * extraLeft' <= 4 * gridSize * gridSize
               /\ 10 * (extraLeft' + 1) > 4 * gridSize * gridSize
       /\ (pc = "densify" /\ pc' = "densify")
            => /\ extraLeft' = extraLeft - 1
               /\ extraLeft' >= 0
               /\ EdgeCount(connections') - EdgeCount(connections) \in {0, 1}
               /\ ~isWrapping => OffGridBits(connections') = {}
       /\ (pc = "densify" /\ pc' = "solved")
            => /\ extraLeft = 0
               /\ EdgeCount(connections) >= gridSize * gridSize - 1
               /\ EdgeCount(connections)
                     <= gridSize * gridSize - 1 + (4 * gridSize * gridSize) \div 10
               /\ ~isWrapping => OffGridBits(connections) = {}]_vars

\* C28 witness: on a bounded board of side 3 the three rounds have run and
\* added two edges, one round having added none.
C28_Witness ==
    /\ pc = "densify"
    /\ ~isWrapping
    /\ gridSize = 3
    /\ extraLeft = 0
    /\ EdgeCount(connections) = 10


\* C29: once every pending update and effect of an event has been applied, a
\* game marked solved shows a grid that passes the win verifier under the
\* current wrap flag.
C29_WonGridPassesVerifier ==
    (InGame /\ Idle /\ isWon) => isWinConditionMet(grid, terminals, isWrapping)


\* C30: every applied hint changes the mask exposed by the cell it corrects; a
\* hint is never spent on a cell that already exposes the mask of its Solution
\* rotation.
C30_HintChangesExposedMask ==
    [][(HandleHintClick /\ ~isWon /\ IncorrectCells(grid, solution) # {})
          => \A a \in ChangedCells(grid, grid') :
                ExposedMask(grid', a) # ExposedMask(grid, a)]_vars

====
